---- MODULE Spec2Model ----
(***************************************************************************)
(* Model of the MDL Slider component, src/src/mdl/Slider.tsx.               *)
(*                                                                         *)
(* The component is single threaded: every handler (a gesture event, a     *)
(* layout event, a props update, an assignment through the public `value`  *)
(* setter) runs to completion, so each handler is one action.              *)
(*                                                                         *)
(* Numbers.  The component computes with JavaScript numbers.  A number is  *)
(* modelled as an exact rational <<n, d>> in lowest terms with d > 0, and  *)
(* NaN as <<0, 0>>.  The rounding of binary floating point is not          *)
(* modelled.  With min < max and step # 0 (the only configurations that    *)
(* reach the arithmetic of a measured track) the code never divides a      *)
(* non-NaN number by zero, so the infinities never arise; the one division *)
(* by zero it performs is the remainder 0 % 0 of _snap on an unmeasured    *)
(* track, which is NaN.                                                    *)
(*                                                                         *)
(* Specifications.  Spec is the component under the configurations that    *)
(* render accepts, where render writes no field and is left out.           *)
(* RenderSpec follows render and its _verifyStep over configurations that  *)
(* it accepts and that it refuses.  SnapSpec applies _snap to the          *)
(* positions of measured tracks.  ReentrantSpec is the component under a   *)
(* host whose onChange handler assigns through the `value` setter; in Spec *)
(* the callbacks of the host leave the component alone.                    *)
(***************************************************************************)
EXTENDS Integers, Sequences, FiniteSets, TLC

(***************************************************************************)
(* Bounds of the model.                                                    *)
(***************************************************************************)
\* longest recorded run of touch events since the last TOUCH_DOWN
MaxGestureLen == 3
\* largest pointer anchor (_prevPointerX) a release may leave behind
MaxAnchor == 30
\* most render passes followed in one behaviour
MaxRenders == 3
\* widest track, in pixels, on which _snap is applied directly
MaxTrack == 8

(***************************************************************************)
(* JavaScript number arithmetic on rationals with NaN.                     *)
(***************************************************************************)
NaN == <<0, 0>>

IsNaN(a) == a[2] = 0

Abs(n) == IF n < 0 THEN -n ELSE n

RECURSIVE GCD(_, _)
GCD(a, b) == IF b = 0 THEN a ELSE GCD(b, a % b)

\* the number n/d in lowest terms
Rat(n, d) ==
    IF d = 0 THEN NaN
    ELSE LET s == IF d < 0 THEN -1 ELSE 1
             g == GCD(Abs(n), Abs(d))
         IN  <<(s * n) \div g, (s * d) \div g>>

Num(k) == <<k, 1>>

Add(a, b) == IF IsNaN(a) \/ IsNaN(b) THEN NaN
             ELSE Rat(a[1] * b[2] + b[1] * a[2], a[2] * b[2])

Sub(a, b) == IF IsNaN(a) \/ IsNaN(b) THEN NaN
             ELSE Rat(a[1] * b[2] - b[1] * a[2], a[2] * b[2])

Mul(a, b) == IF IsNaN(a) \/ IsNaN(b) THEN NaN
             ELSE Rat(a[1] * b[1], a[2] * b[2])

\* a / b; 0 / 0 and NaN operands give NaN (a non-zero a over 0 is never evaluated)
Div(a, b) == IF IsNaN(a) \/ IsNaN(b) \/ b[1] = 0 THEN NaN
             ELSE Rat(a[1] * b[2], a[2] * b[1])

\* comparisons are false on NaN
Ge(a, b) == ~IsNaN(a) /\ ~IsNaN(b) /\ a[1] * b[2] >= b[1] * a[2]

Le(a, b) == Ge(b, a)

\* a !== b : NaN differs from everything, itself included
StrictNeq(a, b) == IsNaN(a) \/ IsNaN(b) \/ a # b

\* the truthiness of a number: 0 and NaN are falsy
Truthy(a) == ~IsNaN(a) /\ a[1] # 0

Floor(a) == a[1] \div a[2]

\* integer part, rounding toward zero
Trunc(a) == IF a[1] >= 0 THEN Floor(a) ELSE -Floor(<<-a[1], a[2]>>)

\* Math.round: the nearest integer, a half rounding up
MathRound(a) == IF IsNaN(a) THEN NaN ELSE Num(Floor(Add(a, <<1, 2>>)))

\* a % b of JavaScript: the remainder has the sign of a; NaN when b is 0
JsMod(a, b) == IF IsNaN(a) \/ IsNaN(b) \/ b[1] = 0 THEN NaN
               ELSE Sub(a, Mul(b, Num(Trunc(Div(a, b)))))

MathMax(a, b) == IF IsNaN(a) \/ IsNaN(b) THEN NaN ELSE IF Ge(a, b) THEN a ELSE b

MathMin(a, b) == IF IsNaN(a) \/ IsNaN(b) THEN NaN ELSE IF Le(a, b) THEN a ELSE b

(***************************************************************************)
(* Constants of the component.                                             *)
(***************************************************************************)
THUMB_SCALE_RATIO == <<13, 10>>

THUMB_BORDER_WIDTH == 2

TRACK_EXTRA_MARGIN_H == 5

(***************************************************************************)
(* Inputs.                                                                 *)
(***************************************************************************)
\* {min, max, step} configurations that render accepts, with min < max
Ranges == { <<0, 10, 1>>, <<2, 6, 2>> }

\* values handed to the value prop and to the public setter
Values == { 5, 12 }

\* every props object the host may pass (thumbRadius stays at its default)
PropsSet ==
    { [min |-> Num(r[1]), max |-> Num(r[2]), step |-> Num(r[3]),
       value |-> Num(v), thumbRadius |-> Num(6)] : r \in Ranges, v \in Values }

\* track widths the layout provider may report
Widths == { 0, 10, 20 }

\* locationX of a touch down, and dx of a move, release or termination
PointerXs == { 20, 25 }

Deltas == { -10, 0, 5 }

(***************************************************************************)
(* State.                                                                  *)
(***************************************************************************)
VARIABLES
    props,                 \* this.props
    mounted,               \* UNSAFE_componentWillMount has run
    _value,                \* this._value
    _trackMarginH,         \* this._trackMarginH
    _trackTotalLength,     \* this._trackTotalLength
    _prevPointerX,         \* this._prevPointerX
    _animatedTrackLength,  \* the displayed thumb offset, set by _moveThumb
    last,                  \* the handler that ran last
    calls,                 \* the outward calls that handler made, in order
    gesture,               \* the touch event types since the last TOUCH_DOWN
    renderResult,          \* how the last render pass ended: "none", "ok", "error"
    renders,               \* the render passes so far
    probe                  \* the last direct application of _snap, if any

vars == <<props, mounted, _value, _trackMarginH, _trackTotalLength,
          _prevPointerX, _animatedTrackLength, last, calls, gesture,
          renderResult, renders, probe>>

\* what only render and the direct applications of _snap write
aux == <<renderResult, renders, probe>>

\* no direct application of _snap yet
NoProbe == [x |-> NaN, inc |-> NaN, once |-> NaN, twice |-> NaN]

\* an outward call: a callback prop or a directive to the thumb
Call(cb, arg) == [cb |-> cb, arg |-> arg]

(***************************************************************************)
(* The component's methods.  A method that writes fields or calls out is   *)
(* an operator from the fields it reads to a record of the fields it       *)
(* writes and the calls it makes.                                          *)
(***************************************************************************)
\* props.step || 1
StepOrOne(p) == IF Truthy(p.step) THEN p.step ELSE Num(1)

\* _toPixelScale
ToPixelScale(value, p, len) ==
    LET rangeToTrack == Div(len, Sub(p.max, p.min))
    IN  Mul(Sub(value, p.min), rangeToTrack)

\* _defaultStepIncrement
DefaultStepIncrement(p, len) ==
    Div(Div(ToPixelScale(p.max, p, len), Sub(p.max, p.min)), StepOrOne(p))

\* a variant of _snap that adds the remainder where _snap subtracts it
Snap_PlusDiff(val, inc) ==
    LET current == MathRound(val)
        half    == Mul(inc, <<1, 2>>)
        diff    == JsMod(current, inc)
    IN  IF Ge(diff, half)
        THEN LET multiplier == MathRound(Div(current, inc))
             IN  Mul(inc, multiplier)
        ELSE Add(current, diff)

\* _snap
Snap(val, inc) ==
    LET current == MathRound(val)
        half    == Mul(inc, <<1, 2>>)
        diff    == JsMod(current, inc)
    IN  IF Ge(diff, half)
        THEN LET multiplier == MathRound(Div(current, inc))
             IN  Mul(inc, multiplier)
        ELSE Sub(current, diff)

\* _internalSetValue
InternalSetValue(cur, value, fireChange) ==
    IF StrictNeq(cur, value)
    THEN [value |-> value,
          calls |-> IF fireChange THEN <<Call("onChange", value)>> ELSE <<>>]
    ELSE [value |-> cur, calls |-> <<>>]

\* _emitOnPressIn
EmitOnPressIn == <<Call("onPressIn", Num(0))>>

\* _emitOnPressOut
EmitOnPressOut == <<Call("onPressOut", Num(0))>>

\* _emitConfirm
EmitConfirm(cur) == <<Call("onConfirm", cur)>>

\* _moveThumb
MoveThumb(x) == <<Call("moveTo", x)>>

\* _confirmMoveThumb
ConfirmMoveThumb == <<Call("confirmMoveTo", Num(0))>>

\* a variant of _aniUpdateValue that also reports through onConfirm
AniUpdateValue_EmitConfirm(value, p, len, thumb) ==
    IF Truthy(len)
    THEN LET ratio == Div(Sub(value, p.min), Sub(p.max, p.min))
             x     == Mul(ratio, len)
         IN  [thumb |-> x,
              calls |-> MoveThumb(x) \o ConfirmMoveThumb \o EmitConfirm(value)]
    ELSE [thumb |-> thumb, calls |-> <<>>]

\* a variant of _aniUpdateValue that forgets the range's origin
AniUpdateValue_NoMin(value, p, len, thumb) ==
    IF Truthy(len)
    THEN LET ratio == Div(value, Sub(p.max, p.min))
             x     == Mul(ratio, len)
         IN  [thumb |-> x, calls |-> MoveThumb(x) \o ConfirmMoveThumb]
    ELSE [thumb |-> thumb, calls |-> <<>>]

\* _aniUpdateValue
AniUpdateValue(value, p, len, thumb) ==
    IF Truthy(len)
    THEN LET ratio == Div(Sub(value, p.min), Sub(p.max, p.min))
             x     == Mul(ratio, len)
         IN  [thumb |-> x, calls |-> MoveThumb(x) \o ConfirmMoveThumb]
    ELSE [thumb |-> thumb, calls |-> <<>>]

\* _getTouchOnTrack, its last two statements: the snapped x and its ratio
TouchOnTrack(x, len) == [x |-> x, ratio |-> Div(x, len)]

\* _getTouchOnTrack
GetTouchOnTrack(evtx, p, len, marginH) ==
    TouchOnTrack(Snap(MathMin(MathMax(Sub(evtx, marginH), Num(0)), len),
                      DefaultStepIncrement(p, len)),
                 len)

\* _updateValueByTouch, its last two statements: the outcome set of
\* _internalSetValue, then _moveThumb(x)
StoreAndMoveThumb(set, x) ==
    [value |-> set.value, thumb |-> x, calls |-> set.calls \o MoveThumb(x)]

\* _updateValueByTouch, from the touch position t on
UpdateValueAt(t, cur, p) ==
    StoreAndMoveThumb(
        InternalSetValue(cur, Add(Mul(t.ratio, Sub(p.max, p.min)), p.min), TRUE),
        t.x)

\* _updateValueByTouch
UpdateValueByTouch(evtx, cur, p, len, marginH) ==
    UpdateValueAt(GetTouchOnTrack(evtx, p, len, marginH), cur, p)

\* a variant of _confirmUpdateValueByTouch that settles the thumb only
ConfirmUpdateValueByTouch_NoEmit(cur) == ConfirmMoveThumb

\* _confirmUpdateValueByTouch
ConfirmUpdateValueByTouch(cur) == ConfirmMoveThumb \o EmitConfirm(cur)

\* a variant of _onTouchEvent that ends a gesture with the confirm before
\* the press-out
OnTouchEvent_ConfirmFirst(type, evtx, cur, p, len, marginH, thumb) ==
    CASE type = "TOUCH_DOWN" ->
           [UpdateValueByTouch(evtx, cur, p, len, marginH)
              EXCEPT !.calls = EmitOnPressIn \o @]
      [] type = "TOUCH_MOVE" ->
           UpdateValueByTouch(evtx, cur, p, len, marginH)
      [] type = "TOUCH_UP" ->
           [value |-> cur, thumb |-> thumb,
            calls |-> ConfirmUpdateValueByTouch(cur) \o EmitOnPressOut]
      [] type = "TOUCH_CANCEL" ->
           [value |-> cur, thumb |-> thumb,
            calls |-> ConfirmUpdateValueByTouch(cur) \o EmitOnPressOut]
      [] OTHER ->
           [value |-> cur, thumb |-> thumb, calls |-> <<>>]

\* _onTouchEvent
OnTouchEvent(type, evtx, cur, p, len, marginH, thumb) ==
    CASE type = "TOUCH_DOWN" ->
           [UpdateValueByTouch(evtx, cur, p, len, marginH)
              EXCEPT !.calls = EmitOnPressIn \o @]
      [] type = "TOUCH_MOVE" ->
           UpdateValueByTouch(evtx, cur, p, len, marginH)
      [] type = "TOUCH_UP" ->
           [value |-> cur, thumb |-> thumb,
            calls |-> EmitOnPressOut \o ConfirmUpdateValueByTouch(cur)]
      [] type = "TOUCH_CANCEL" ->
           [value |-> cur, thumb |-> thumb,
            calls |-> EmitOnPressOut \o ConfirmUpdateValueByTouch(cur)]
      [] OTHER ->
           [value |-> cur, thumb |-> thumb, calls |-> <<>>]

\* _onThumbRadiiUpdate: the new _trackMarginH
OnThumbRadiiUpdate(p) ==
    LET radius == IF Truthy(p.thumbRadius) THEN p.thumbRadius ELSE Num(6)
        thumbRadiiWithBorder == Add(radius, Num(THUMB_BORDER_WIDTH))
    IN  Add(Mul(thumbRadiiWithBorder, THUMB_SCALE_RATIO), Num(TRACK_EXTRA_MARGIN_H))

(***************************************************************************)
(* The gesture session, as the touch events since the last TOUCH_DOWN show *)
(* it: open from a TOUCH_DOWN until the first TOUCH_UP or TOUCH_CANCEL.    *)
(***************************************************************************)
Dragging ==
    /\ gesture # <<>>
    /\ \A i \in 1..Len(gesture) : gesture[i] \notin {"TOUCH_UP", "TOUCH_CANCEL"}

(***************************************************************************)
(* Initial state: a constructed, not yet mounted component, whose first    *)
(* props carry a value of their own range.                                 *)
(***************************************************************************)
Init ==
    /\ props \in { p \in PropsSet : Ge(p.value, p.min) /\ Le(p.value, p.max) }
    /\ mounted = FALSE
    /\ _value = Num(0)
    /\ _trackMarginH = Num(0)
    /\ _trackTotalLength = Num(0)
    /\ _prevPointerX = Num(0)
    /\ _animatedTrackLength = Num(0)
    /\ last = "constructor"
    /\ calls = <<>>
    /\ gesture = <<>>
    /\ renderResult = "none"
    /\ renders = 0
    /\ probe = NoProbe

(***************************************************************************)
(* Handlers.                                                               *)
(***************************************************************************)
\* the fields a touch handler writes and the calls it makes, from the
\* outcome r of _onTouchEvent
Commit(r) ==
    /\ _value' = r.value
    /\ _animatedTrackLength' = r.thumb
    /\ calls' = r.calls

\* the same for _internalSetValue followed by _aniUpdateValue
CommitAssignment(set, ani) ==
    /\ _value' = set.value
    /\ _animatedTrackLength' = ani.thumb
    /\ calls' = set.calls \o ani.calls

\* UNSAFE_componentWillMount
ComponentWillMount ==
    /\ ~mounted
    /\ mounted' = TRUE
    /\ _trackMarginH' = OnThumbRadiiUpdate(props)
    /\ LET set == InternalSetValue(_value, props.value, FALSE)
       IN  /\ _value' = set.value
           /\ calls' = set.calls
    /\ last' = "componentWillMount"
    /\ UNCHANGED aux
    /\ UNCHANGED <<props, _trackTotalLength, _prevPointerX,
                   _animatedTrackLength, gesture>>

\* a variant of UNSAFE_componentWillReceiveProps that lets _internalSetValue
\* fire the change callback
ComponentWillReceiveProps_FireChange(nextProps) ==
    /\ mounted
    /\ _trackMarginH' = OnThumbRadiiUpdate(nextProps)
    /\ CommitAssignment(InternalSetValue(_value, nextProps.value, TRUE),
                        AniUpdateValue(nextProps.value, props, _trackTotalLength,
                                       _animatedTrackLength))
    /\ props' = nextProps
    /\ last' = "componentWillReceiveProps"
    /\ UNCHANGED aux
    /\ UNCHANGED <<mounted, _trackTotalLength, _prevPointerX, gesture>>

\* UNSAFE_componentWillReceiveProps, after which React installs nextProps
ComponentWillReceiveProps(nextProps) ==
    /\ mounted
    /\ _trackMarginH' = OnThumbRadiiUpdate(nextProps)
    /\ CommitAssignment(InternalSetValue(_value, nextProps.value, FALSE),
                        AniUpdateValue(nextProps.value, props, _trackTotalLength,
                                       _animatedTrackLength))
    /\ props' = nextProps
    /\ last' = "componentWillReceiveProps"
    /\ UNCHANGED aux
    /\ UNCHANGED <<mounted, _trackTotalLength, _prevPointerX, gesture>>

\* set value
SetValue(value) ==
    /\ mounted
    /\ CommitAssignment(InternalSetValue(_value, value, TRUE),
                        AniUpdateValue(value, props, _trackTotalLength,
                                       _animatedTrackLength))
    /\ last' = "setValue"
    /\ UNCHANGED aux
    /\ UNCHANGED <<props, mounted, _trackMarginH, _trackTotalLength,
                   _prevPointerX, gesture>>

\* _onTrackLayout
OnTrackLayout(width) ==
    /\ mounted
    /\ IF StrictNeq(_trackTotalLength, width)
       THEN LET ani == AniUpdateValue(_value, props, width, _animatedTrackLength)
            IN  /\ _trackTotalLength' = width
                /\ _animatedTrackLength' = ani.thumb
                /\ calls' = ani.calls
       ELSE /\ calls' = <<>>
            /\ UNCHANGED <<_trackTotalLength, _animatedTrackLength>>
    /\ last' = "onTrackLayout"
    /\ UNCHANGED aux
    /\ UNCHANGED <<props, mounted, _value, _trackMarginH, _prevPointerX, gesture>>

\* onPanResponderGrant
OnPanResponderGrant(locationX) ==
    /\ mounted
    /\ ~Dragging
    /\ _prevPointerX' = locationX
    /\ Commit(OnTouchEvent("TOUCH_DOWN", locationX, _value, props,
                           _trackTotalLength, _trackMarginH, _animatedTrackLength))
    /\ last' = "TOUCH_DOWN"
    /\ UNCHANGED aux
    /\ gesture' = <<"TOUCH_DOWN">>
    /\ UNCHANGED <<props, mounted, _trackMarginH, _trackTotalLength>>

\* a variant of onPanResponderMove that drops a move outside a gesture
OnPanResponderMove_IgnoreStray(dx) ==
    /\ mounted
    /\ Len(gesture) < MaxGestureLen
    /\ Commit(OnTouchEvent(IF Dragging THEN "TOUCH_MOVE" ELSE "NONE",
                           Add(_prevPointerX, dx), _value, props,
                           _trackTotalLength, _trackMarginH, _animatedTrackLength))
    /\ last' = "TOUCH_MOVE"
    /\ UNCHANGED aux
    /\ gesture' = Append(gesture, "TOUCH_MOVE")
    /\ UNCHANGED <<props, mounted, _trackMarginH, _trackTotalLength, _prevPointerX>>

\* onPanResponderMove; the handler does not look at whether a gesture is open
OnPanResponderMove(dx) ==
    /\ mounted
    /\ Len(gesture) < MaxGestureLen
    /\ Commit(OnTouchEvent("TOUCH_MOVE", Add(_prevPointerX, dx), _value, props,
                           _trackTotalLength, _trackMarginH, _animatedTrackLength))
    /\ last' = "TOUCH_MOVE"
    /\ UNCHANGED aux
    /\ gesture' = Append(gesture, "TOUCH_MOVE")
    /\ UNCHANGED <<props, mounted, _trackMarginH, _trackTotalLength, _prevPointerX>>

\* a variant of _onPanResponderEnd that adds dx to the anchor on a
\* termination too
OnPanResponderEnd_AlwaysAdds(dx, cancelled) ==
    /\ mounted
    /\ Dragging
    /\ LET x    == Add(_prevPointerX, dx)
           type == IF cancelled THEN "TOUCH_CANCEL" ELSE "TOUCH_UP"
       IN  /\ Le(Num(0), x) /\ Le(x, Num(MaxAnchor))
           /\ _prevPointerX' = x
           /\ Commit(OnTouchEvent(type, x, _value, props, _trackTotalLength,
                                  _trackMarginH, _animatedTrackLength))
           /\ last' = type
           /\ UNCHANGED aux
           /\ gesture' = Append(gesture, type)
    /\ UNCHANGED <<props, mounted, _trackMarginH, _trackTotalLength>>

\* _onPanResponderEnd
OnPanResponderEnd(dx, cancelled) ==
    /\ mounted
    /\ Dragging
    /\ LET x    == IF ~cancelled THEN Add(_prevPointerX, dx) ELSE _prevPointerX
           type == IF cancelled THEN "TOUCH_CANCEL" ELSE "TOUCH_UP"
       IN  /\ Le(Num(0), x) /\ Le(x, Num(MaxAnchor))
           /\ _prevPointerX' = x
           /\ Commit(OnTouchEvent(type, x, _value, props, _trackTotalLength,
                                  _trackMarginH, _animatedTrackLength))
           /\ last' = type
           /\ UNCHANGED aux
           /\ gesture' = Append(gesture, type)
    /\ UNCHANGED <<props, mounted, _trackMarginH, _trackTotalLength>>

\* onPanResponderRelease
OnPanResponderRelease(dx) == OnPanResponderEnd(dx, FALSE)

\* onPanResponderTerminate
OnPanResponderTerminate(dx) == OnPanResponderEnd(dx, TRUE)

Next ==
    \/ ComponentWillMount
    \/ \E nextProps \in PropsSet : ComponentWillReceiveProps(nextProps)
    \/ \E v \in Values : SetValue(Num(v))
    \/ \E w \in Widths : OnTrackLayout(Num(w))
    \/ \E x \in PointerXs : OnPanResponderGrant(Num(x))
    \/ \E dx \in Deltas : OnPanResponderMove(Num(dx))
    \/ \E dx \in Deltas : OnPanResponderRelease(Num(dx))
    \/ \E dx \in Deltas : OnPanResponderTerminate(Num(dx))

Spec == Init /\ [][Next]_vars

(***************************************************************************)
(* Render and the validation of the configuration.                         *)
(***************************************************************************)
\* the ranges and steps a host may configure, valid or not
RenderMins == { 0, 1 }
RenderMaxs == { 4, 10 }
RenderSteps == { -2, 0, 1, 2, 3 }

RenderProps ==
    { [min |-> Num(lo), max |-> Num(hi), step |-> Num(st),
       value |-> Num(lo), thumbRadius |-> Num(6)] :
         lo \in RenderMins, hi \in RenderMaxs, st \in RenderSteps }

\* _verifyStep with a check of the step against max - min
VerifyStep_Range(p) ==
    StrictNeq(JsMod(Div(Sub(p.max, p.min), StepOrOne(p)), Num(1)), Num(0))

\* _verifyStep: TRUE when it throws
VerifyStep(p) ==
    StrictNeq(JsMod(Div(p.max, StepOrOne(p)), Num(1)), Num(0))

\* render with a validation on the first pass only
Render_CheckOnce ==
    /\ mounted
    /\ renders < MaxRenders
    /\ renderResult' = IF renders = 0 /\ VerifyStep(props) THEN "error" ELSE "ok"
    /\ renders' = renders + 1
    /\ last' = "render"
    /\ calls' = <<>>
    /\ UNCHANGED <<props, mounted, _value, _trackMarginH, _trackTotalLength,
                   _prevPointerX, _animatedTrackLength, gesture, probe>>

\* render: _verifyStep first; the element it builds writes no field
Render ==
    /\ mounted
    /\ renders < MaxRenders
    /\ renderResult' = IF VerifyStep(props) THEN "error" ELSE "ok"
    /\ renders' = renders + 1
    /\ last' = "render"
    /\ calls' = <<>>
    /\ UNCHANGED <<props, mounted, _value, _trackMarginH, _trackTotalLength,
                   _prevPointerX, _animatedTrackLength, gesture, probe>>

RenderInit ==
    /\ props \in RenderProps
    /\ mounted = FALSE
    /\ _value = Num(0)
    /\ _trackMarginH = Num(0)
    /\ _trackTotalLength = Num(0)
    /\ _prevPointerX = Num(0)
    /\ _animatedTrackLength = Num(0)
    /\ last = "constructor"
    /\ calls = <<>>
    /\ gesture = <<>>
    /\ renderResult = "none"
    /\ renders = 0
    /\ probe = NoProbe

\* a render pass that threw may be tried again; it takes a pass that
\* returned for the component to live on and receive new props
RenderNext ==
    \/ ComponentWillMount
    \/ Render
    \/ \E nextProps \in RenderProps :
          renderResult = "ok" /\ ComponentWillReceiveProps(nextProps)

RenderSpec == RenderInit /\ [][RenderNext]_vars

(***************************************************************************)
(* _snap applied directly: to every position of a measured track, under    *)
(* every step increment a configuration and a track width produce.         *)
(***************************************************************************)
\* <<min, max, step>> of configurations that render accepts
SnapRanges == { <<0, 10, 1>>, <<2, 6, 2>>, <<1, 4, 2>>, <<0, 4, -2>> }

SnapProps ==
    { [min |-> Num(r[1]), max |-> Num(r[2]), step |-> Num(r[3]),
       value |-> Num(r[2]), thumbRadius |-> Num(6)] : r \in SnapRanges }

\* the widths of a measured track and the positions on a track, in half
\* pixels
HalfPixels == { <<k, 2>> : k \in { j \in 1..(2 * MaxTrack) : j % 2 = 1 } }
                 \cup { Num(k) : k \in 0..MaxTrack }

\* _snap(x) and _snap(_snap(x)) under the increment inc
Probe(x, inc) ==
    [x |-> x, inc |-> inc, once |-> Snap(x, inc),
     twice |-> Snap(Snap(x, inc), inc)]

\* _snap(x), inc being _defaultStepIncrement(), for a position x of the track
ApplySnap(x) ==
    /\ Ge(x, Num(0))
    /\ Le(x, _trackTotalLength)
    /\ probe' = Probe(x, DefaultStepIncrement(props, _trackTotalLength))
    /\ last' = "_snap"
    /\ calls' = <<>>
    /\ UNCHANGED <<props, mounted, _value, _trackMarginH, _trackTotalLength,
                   _prevPointerX, _animatedTrackLength, gesture,
                   renderResult, renders>>

\* a mounted component whose track has been measured
SnapInit ==
    /\ props \in SnapProps
    /\ _trackTotalLength \in { w \in HalfPixels : Truthy(w) }
    /\ mounted = TRUE
    /\ _value = props.value
    /\ _trackMarginH = OnThumbRadiiUpdate(props)
    /\ _prevPointerX = Num(0)
    /\ _animatedTrackLength = _trackTotalLength
    /\ last = "onTrackLayout"
    /\ calls = <<>>
    /\ gesture = <<>>
    /\ renderResult = "none"
    /\ renders = 0
    /\ probe = NoProbe

SnapNext == \E x \in HalfPixels : ApplySnap(x)

SnapSpec == SnapInit /\ [][SnapNext]_vars

(***************************************************************************)
(* A host whose onChange handler assigns a value w of its own through the  *)
(* public setter, synchronously: `onChange = v => { slider.value = w }`.   *)
(* _emitChange runs the handler to completion before it returns.           *)
(***************************************************************************)
\* `set value`(w) of the handler, once _internalSetValue has stored w and
\* called onChange(w): the handler assigns w again, which finds w stored
\* and runs _aniUpdateValue(w) (nested); then the first assignment runs
\* its own _aniUpdateValue(w) (outer)
NestedAssignment(w, nested, outer) ==
    [value |-> w, thumb |-> outer.thumb,
     calls |-> <<Call("onChange", w)>> \o nested.calls \o outer.calls]

\* `set value`(w) of the handler that finds w stored: _aniUpdateValue(w)
StoredAssignment(w, ani) ==
    [value |-> w, thumb |-> ani.thumb, calls |-> ani.calls]

\* `set value`(w) as the handler runs it, cur being stored
HandlerSetValue(cur, w, p, len, thumb) ==
    IF StrictNeq(cur, w)
    THEN NestedAssignment(w, AniUpdateValue(w, p, len, thumb),
                          AniUpdateValue(w, p, len, thumb))
    ELSE StoredAssignment(w, AniUpdateValue(w, p, len, thumb))

\* _updateValueByTouch from _emitChange(val) on: the handler's assignment
\* h, then _moveThumb(x)
ChangeThenMoveThumb(val, h, x) ==
    [value |-> h.value, thumb |-> x,
     calls |-> <<Call("onChange", val)>> \o h.calls \o MoveThumb(x)]

\* _updateValueByTouch for the computed value val and the pixel x
ReentrantStore(val, x, cur, p, len, thumb, w) ==
    IF StrictNeq(cur, val)
    THEN ChangeThenMoveThumb(val, HandlerSetValue(val, w, p, len, thumb), x)
    ELSE [value |-> cur, thumb |-> x, calls |-> MoveThumb(x)]

\* _updateValueByTouch from the touch position t on
ReentrantUpdateValueAt(t, cur, p, len, thumb, w) ==
    ReentrantStore(Add(Mul(t.ratio, Sub(p.max, p.min)), p.min), t.x,
                   cur, p, len, thumb, w)

\* _updateValueByTouch
ReentrantUpdateValueByTouch(evtx, cur, p, len, marginH, thumb, w) ==
    ReentrantUpdateValueAt(GetTouchOnTrack(evtx, p, len, marginH),
                           cur, p, len, thumb, w)

\* onPanResponderGrant
ReentrantGrant(locationX, w) ==
    /\ mounted
    /\ ~Dragging
    /\ _prevPointerX' = locationX
    /\ Commit([ReentrantUpdateValueByTouch(locationX, _value, props,
                   _trackTotalLength, _trackMarginH, _animatedTrackLength, w)
                 EXCEPT !.calls = EmitOnPressIn \o @])
    /\ last' = "TOUCH_DOWN"
    /\ gesture' = <<"TOUCH_DOWN">>
    /\ UNCHANGED aux
    /\ UNCHANGED <<props, mounted, _trackMarginH, _trackTotalLength>>

\* onPanResponderMove
ReentrantMove(dx, w) ==
    /\ mounted
    /\ Len(gesture) < MaxGestureLen
    /\ Commit(ReentrantUpdateValueByTouch(Add(_prevPointerX, dx), _value, props,
                   _trackTotalLength, _trackMarginH, _animatedTrackLength, w))
    /\ last' = "TOUCH_MOVE"
    /\ gesture' = Append(gesture, "TOUCH_MOVE")
    /\ UNCHANGED aux
    /\ UNCHANGED <<props, mounted, _trackMarginH, _trackTotalLength, _prevPointerX>>

\* the host assigns from its onChange handler only
ReentrantNext ==
    \/ ComponentWillMount
    \/ \E width \in Widths : OnTrackLayout(Num(width))
    \/ \E x \in PointerXs, w \in Values : ReentrantGrant(Num(x), Num(w))
    \/ \E dx \in Deltas, w \in Values : ReentrantMove(Num(dx), Num(w))
    \/ \E dx \in Deltas : OnPanResponderRelease(Num(dx))
    \/ \E dx \in Deltas : OnPanResponderTerminate(Num(dx))

ReentrantSpec == Init /\ [][ReentrantNext]_vars

(***************************************************************************)
(* Vocabulary of the properties.                                           *)
(***************************************************************************)
\* how many times the call sequence cs invokes cb
CountIn(cs, cb) == Cardinality({ i \in 1..Len(cs) : cs[i].cb = cb })

\* the arguments cs passes to cb
ArgsIn(cs, cb) == { cs[i].arg : i \in { j \in 1..Len(cs) : cs[j].cb = cb } }

TouchTypes == {"TOUCH_DOWN", "TOUCH_MOVE", "TOUCH_UP", "TOUCH_CANCEL"}

\* (value - min) * len / (max - min)
ValueToPixel(value, p, len) ==
    Div(Mul(Sub(value, p.min), len), Sub(p.max, p.min))

\* the value of the pointer position x: x - marginH clamped to the track,
\* snapped, and converted to the value range
TouchValue(x) ==
    LET t == GetTouchOnTrack(x, props, _trackTotalLength, _trackMarginH)
    IN  Add(Mul(t.ratio, Sub(props.max, props.min)), props.min)

\* v is a number within [min, max]
InRange(v, p) == ~IsNaN(v) /\ Ge(v, p.min) /\ Le(v, p.max)

\* v = min + k * step for an integer k with 0 <= k <= (max - min) / step
OnStepGrid(v, p) ==
    /\ InRange(v, p)
    /\ Div(Sub(v, p.min), p.step)[2] = 1

(***************************************************************************)
(* Properties.                                                             *)
(***************************************************************************)
\* C1: an assignment through the public value setter never invokes onChange.
C1_SetterNeverFiresChange ==
    last = "setValue" => CountIn(calls, "onChange") = 0

\* C2 (as stated): every external value assignment made while
\* totalLengthPx > 0 invokes onConfirm exactly once, with the assigned value.
C2_ExternalAssignmentFiresConfirm ==
    (last \in {"setValue", "componentWillReceiveProps"} /\ Truthy(_trackTotalLength))
        => /\ CountIn(calls, "onConfirm") = 1
           /\ ArgsIn(calls, "onConfirm") = {_value}

\* C2 (amended): an external value assignment made while totalLengthPx > 0
\* never invokes onConfirm; it moves the thumb once and then settles it once
\* through the thumb's confirmMoveTo.
C2_ExternalAssignmentSettlesThumbOnly ==
    (last \in {"setValue", "componentWillReceiveProps"} /\ Truthy(_trackTotalLength))
        => /\ CountIn(calls, "onConfirm") = 0
           /\ CountIn(calls, "moveTo") = 1
           /\ CountIn(calls, "confirmMoveTo") = 1
           /\ calls[Len(calls)].cb = "confirmMoveTo"

C2_Witness ==
    /\ last = "setValue"
    /\ Truthy(_trackTotalLength)
    /\ _value = Num(5)
    /\ calls = <<Call("onChange", Num(5)), Call("moveTo", _animatedTrackLength),
                 Call("confirmMoveTo", Num(0))>>

\* C3: a DOWN or MOVE (or any handler other than a gesture's end) never
\* invokes onConfirm; the UP or CANCEL that ends the gesture invokes it exactly
\* once, with the stored value.
C3_ConfirmOnceAtGestureEnd ==
    /\ last \notin {"TOUCH_UP", "TOUCH_CANCEL"} => CountIn(calls, "onConfirm") = 0
    /\ last \in {"TOUCH_UP", "TOUCH_CANCEL"} =>
          /\ CountIn(calls, "onConfirm") = 1
          /\ ArgsIn(calls, "onConfirm") = {_value}

C3_Witness ==
    /\ gesture = <<"TOUCH_DOWN", "TOUCH_MOVE", "TOUCH_UP">>
    /\ last = "TOUCH_UP"
    /\ Truthy(_trackTotalLength)
    /\ calls = <<Call("onPressOut", Num(0)), Call("confirmMoveTo", Num(0)),
                 Call("onConfirm", _value)>>

\* C4: at UP the value passed to onConfirm, and stored, is the value of the
\* final pointer position anchor + d (which UP leaves in _prevPointerX).
C4_UpConfirmsFinalPosition ==
    (last = "TOUCH_UP" /\ gesture = <<"TOUCH_DOWN", "TOUCH_UP">> /\ ~IsNaN(_value))
        => /\ ArgsIn(calls, "onConfirm") = {TouchValue(_prevPointerX)}
           /\ _value = TouchValue(_prevPointerX)

\* C5: in DOWN(a), MOVE(d1), CANCEL(d2) the value passed to onConfirm is the
\* value of the anchor a recorded at DOWN (CANCEL leaves it in _prevPointerX).
C5_CancelConfirmsAnchor ==
    (last = "TOUCH_CANCEL" /\ gesture = <<"TOUCH_DOWN", "TOUCH_MOVE", "TOUCH_CANCEL">>
       /\ ~IsNaN(_value))
        => ArgsIn(calls, "onConfirm") = {TouchValue(_prevPointerX)}

\* C6: after a DOWN or MOVE processed with totalLengthPx > 0 the stored value,
\* and any value passed to onChange, lies on the step grid.
C6_TouchValueOnStepGrid ==
    (last \in {"TOUCH_DOWN", "TOUCH_MOVE"} /\ Truthy(_trackTotalLength))
        => /\ OnStepGrid(_value, props)
           /\ \A v \in ArgsIn(calls, "onChange") : OnStepGrid(v, props)

\* C7: the stored value is a number within [min, max]; stated of the states
\* a gesture event leaves behind.
C7_ValueWithinRange ==
    last \in TouchTypes => InRange(_value, props)

\* C8: whenever totalLengthPx > 0 and a handler has completed, the displayed
\* thumb position is (value - min) * totalLengthPx / (max - min).
C8_ThumbMatchesValue ==
    (mounted /\ Truthy(_trackTotalLength))
        => _animatedTrackLength = ValueToPixel(_value, props, _trackTotalLength)

\* C9: while totalLengthPx is 0 a DOWN or MOVE leaves the stored value
\* unchanged and invokes no onChange.
C9_UnmeasuredTouchIsNoOp ==
    [][(last' \in {"TOUCH_DOWN", "TOUCH_MOVE"} /\ ~Truthy(_trackTotalLength'))
          => (_value' = _value /\ CountIn(calls', "onChange") = 0)]_vars

\* C10: a layout change to a new non-zero width W moves the thumb to
\* (value - min) * W / (max - min), leaves the stored value and the anchor
\* alone and invokes neither onChange nor onConfirm; a layout event carrying
\* the stored width changes nothing.
C10_LayoutRepositionsOnly ==
    [][last' = "onTrackLayout" =>
          /\ _value' = _value
          /\ _prevPointerX' = _prevPointerX
          /\ CountIn(calls', "onChange") = 0
          /\ CountIn(calls', "onConfirm") = 0
          /\ (_trackTotalLength' # _trackTotalLength /\ Truthy(_trackTotalLength'))
                => _animatedTrackLength' = ValueToPixel(_value, props, _trackTotalLength')
          /\ _trackTotalLength' = _trackTotalLength
                => /\ calls' = <<>>
                   /\ UNCHANGED <<props, mounted, _value, _trackMarginH,
                                  _prevPointerX, _animatedTrackLength, gesture>>]_vars

C10_Witness ==
    /\ last = "onTrackLayout"
    /\ _trackTotalLength = Num(20)
    /\ _value = Num(5)
    /\ props.min = Num(2)
    /\ _animatedTrackLength = Num(15)
    /\ Dragging

\* a number that is an integer
IsInteger(a) == ~IsNaN(a) /\ a[2] = 1

\* C11 (as stated): a render pass throws the configuration error exactly
\* when max / step is not an integer, on every pass.
C11_RaisesIffMaxOverStepFractional ==
    (last = "render")
        => (renderResult = "error" <=> ~IsInteger(Div(props.max, props.step)))

\* C11 (amended): a render pass throws the configuration error exactly
\* when max / (step || 1) is not an integer, a step of 0 counting as 1;
\* it throws on the first pass and on every later pass alike.
C11_RaisesIffMaxOverStepOrOneFractional ==
    (last = "render")
        => (renderResult = "error"
              <=> ~IsInteger(Div(props.max, StepOrOne(props))))

\* a second render pass over max = 10, step = 3 has thrown again
C11_Witness ==
    /\ last = "render"
    /\ renders = 2
    /\ renderResult = "error"
    /\ props.max = Num(10)
    /\ props.step = Num(3)

\* C12 (as stated): a configuration that render accepts has a positive
\* step that evenly divides max - min.
C12_AcceptedStepDividesRange ==
    (last = "render" /\ renderResult = "ok")
        => /\ Ge(props.step, Num(0)) /\ props.step # Num(0)
           /\ IsInteger(Div(Sub(props.max, props.min), props.step))

\* C12 (amended): a configuration that render accepts has a step that,
\* taken as 1 when it is 0, evenly divides max.
C12_AcceptedStepDividesMax ==
    (last = "render" /\ renderResult = "ok")
        => IsInteger(Div(props.max, StepOrOne(props)))

\* render has accepted min = 1, max = 4, step = 2, whose range is 3
C12_Witness ==
    /\ last = "render"
    /\ renderResult = "ok"
    /\ props.min = Num(1)
    /\ props.max = Num(4)
    /\ props.step = Num(2)

\* C13: a props update carrying the value v never invokes onChange,
\* whatever the stored value and whether or not a gesture is open; it
\* leaves v stored and, when totalLengthPx > 0, moves the thumb once, to
\* the position of v in the range in force when the handler runs.
C13_PropUpdateIsSilent ==
    [][last' = "componentWillReceiveProps" =>
          /\ CountIn(calls', "onChange") = 0
          /\ _value' = props'.value
          /\ Truthy(_trackTotalLength) =>
                /\ CountIn(calls', "moveTo") = 1
                /\ _animatedTrackLength'
                      = ValueToPixel(props'.value, props, _trackTotalLength)]_vars

\* a props update has replaced the value of an open gesture by 12
C13_Witness ==
    /\ last = "componentWillReceiveProps"
    /\ gesture = <<"TOUCH_DOWN">>
    /\ _trackTotalLength = Num(20)
    /\ props.min = Num(0)
    /\ _value = Num(12)
    /\ calls = <<Call("moveTo", Num(24)), Call("confirmMoveTo", Num(0))>>

\* C14: a DOWN or MOVE invokes onChange at most once, with the new stored
\* value, and invokes it exactly when it changes the stored value, so an
\* event that repeats the position of the one before invokes none.
C14_ChangeIffValueDiffers ==
    [][last' \in {"TOUCH_DOWN", "TOUCH_MOVE"} =>
          /\ CountIn(calls', "onChange") <= 1
          /\ ArgsIn(calls', "onChange") \subseteq {_value'}
          /\ CountIn(calls', "onChange") = 1 <=> _value' # _value]_vars

\* the host callbacks among the calls cs, by name and in order
Callbacks(cs) ==
    LET host == SelectSeq(cs, LAMBDA c :
                    c.cb \in {"onPressIn", "onChange", "onPressOut", "onConfirm"})
    IN  [i \in 1..Len(host) |-> host[i].cb]

\* C16: a DOWN invokes onPressIn once and first, then at most one onChange;
\* a MOVE invokes at most one onChange and nothing else; the UP or CANCEL
\* that ends the gesture invokes onPressOut once and then onConfirm once,
\* and no onChange; no other handler invokes onPressIn, onPressOut or
\* onConfirm.
C16_CallbackOrder ==
    /\ last = "TOUCH_DOWN" =>
          Callbacks(calls) \in {<<"onPressIn">>, <<"onPressIn", "onChange">>}
    /\ last = "TOUCH_MOVE" => Callbacks(calls) \in {<<>>, <<"onChange">>}
    /\ last \in {"TOUCH_UP", "TOUCH_CANCEL"} =>
          Callbacks(calls) = <<"onPressOut", "onConfirm">>
    /\ last \notin TouchTypes =>
          \A i \in 1..Len(calls) :
             calls[i].cb \notin {"onPressIn", "onPressOut", "onConfirm"}

\* a gesture of three events has just been cancelled on a measured track
C16_Witness ==
    /\ gesture = <<"TOUCH_DOWN", "TOUCH_MOVE", "TOUCH_CANCEL">>
    /\ last = "TOUCH_CANCEL"
    /\ Truthy(_trackTotalLength)
    /\ Callbacks(calls) = <<"onPressOut", "onConfirm">>

\* C18: a DOWN sets the anchor to the offset of the event, an UP adds its
\* delta to it, and no other handler (MOVE, CANCEL, layout, the setter, a
\* props update) changes it.
C18_AnchorWrittenByDownAndUp ==
    [][/\ last' = "TOUCH_DOWN" =>
             _prevPointerX' \in { Num(x) : x \in PointerXs }
       /\ last' = "TOUCH_UP" =>
             \E dx \in Deltas : _prevPointerX' = Add(_prevPointerX, Num(dx))
       /\ last' \notin {"TOUCH_DOWN", "TOUCH_UP"} =>
             _prevPointerX' = _prevPointerX]_vars

\* DOWN at 25, a MOVE by -10 that took the value to 0, then CANCEL: the
\* anchor is still 25
C18_Witness ==
    /\ last = "TOUCH_CANCEL"
    /\ gesture = <<"TOUCH_DOWN", "TOUCH_MOVE", "TOUCH_CANCEL">>
    /\ _trackTotalLength = Num(20)
    /\ props.min = Num(0)
    /\ _value = Num(0)
    /\ _prevPointerX = Num(25)

\* the step is a MOVE by dx processed by _updateValueByTouch against the
\* stored anchor
ProcessedAsMove(dx) ==
    /\ _prevPointerX' = _prevPointerX
    /\ Commit(UpdateValueByTouch(Add(_prevPointerX, dx), _value, props,
                                 _trackTotalLength, _trackMarginH))

\* C19: a MOVE delivered while no gesture is open is processed like a MOVE
\* of a drag, against the stored anchor: it stores the value of
\* anchor + dx, invokes onChange when that value differs and moves the
\* thumb, and it invokes neither onPressIn nor onConfirm.
C19_StrayMoveIsProcessed ==
    [][(last' = "TOUCH_MOVE" /\ ~Dragging) =>
          /\ \E dx \in Deltas : ProcessedAsMove(Num(dx))
          /\ CountIn(calls', "onPressIn") = 0
          /\ CountIn(calls', "onConfirm") = 0]_vars

\* a MOVE after the UP of a gesture has changed the value and the thumb
C19_Witness ==
    /\ gesture = <<"TOUCH_DOWN", "TOUCH_UP", "TOUCH_MOVE">>
    /\ last = "TOUCH_MOVE"
    /\ Truthy(_trackTotalLength)
    /\ calls = <<Call("onChange", _value), Call("moveTo", _animatedTrackLength)>>

\* C15: _snap is idempotent: for every position x of a measured track and
\* the step increment of the configuration, _snap(_snap(x)) = _snap(x).
C15_SnapIdempotent ==
    last = "_snap" => probe.twice = probe.once

\* _snap has taken a position to a multiple of the increment that is no
\* whole pixel, and taken that multiple to itself
C15_Witness ==
    /\ last = "_snap"
    /\ probe.once # probe.x
    /\ ~IsInteger(probe.once)
    /\ probe.twice = probe.once

\* the absolute value of a number
AbsOf(a) == IF Ge(a, Num(0)) THEN a ELSE Sub(Num(0), a)

\* C17: for every position x of the track and every increment inc > 0,
\* _snap(x) is a multiple of inc, it is round(round(x) / inc) * inc when
\* round(x) mod inc >= inc / 2 and round(x) - round(x) mod inc otherwise,
\* it lies within inc / 2 of round(x), and it does not exceed the track
\* length.
C17_SnapNearestMultipleWithinTrack ==
    (last = "_snap" /\ Ge(probe.inc, Num(0)) /\ Truthy(probe.inc)) =>
        /\ probe.once =
              (IF Ge(JsMod(MathRound(probe.x), probe.inc), Div(probe.inc, Num(2)))
               THEN Mul(MathRound(Div(MathRound(probe.x), probe.inc)), probe.inc)
               ELSE Sub(MathRound(probe.x), JsMod(MathRound(probe.x), probe.inc)))
        /\ IsInteger(Div(probe.once, probe.inc))
        /\ Le(AbsOf(Sub(probe.once, MathRound(probe.x))), Div(probe.inc, Num(2)))
        /\ Le(probe.once, _trackTotalLength)

\* C20: when the onChange handler of a DOWN or MOVE on a measured track
\* assigns a value w through the setter, the handler that returns leaves
\* w stored and the thumb at the position of the stored value, and
\* onChange has been invoked once, by the touch event, and not again by
\* the assignment.
C20_ReentrantAssignmentSettles ==
    (last \in {"TOUCH_DOWN", "TOUCH_MOVE"} /\ Truthy(_trackTotalLength)
       /\ CountIn(calls, "onChange") >= 1)
        => /\ _value \in { Num(w) : w \in Values }
           /\ _animatedTrackLength
                 = ValueToPixel(_value, props, _trackTotalLength)
           /\ CountIn(calls, "onChange") = 1

====
